---- MODULE Spec2Model ----
(***************************************************************************)
(* Model of the two variants of the Sample User API: main.py (with         *)
(* database.py and models.py) and sample_fastapi.py.  Each variant is a    *)
(* process with its own in-memory store fake_users_db; every step is one   *)
(* HTTP request handled to completion.                                     *)
(*                                                                         *)
(* Python dicts are functions from keys to values, a pydantic model is the *)
(* set of its declared fields, and a request/response object is a record.  *)
(* A subscript of a key the dict lacks (KeyError), a read of an attribute  *)
(* the model does not declare (AttributeError) and the construction of a   *)
(* model without one of its required fields (ValidationError) are          *)
(* unhandled exceptions: the framework answers 500.                        *)
(***************************************************************************)
EXTENDS Integers, Sequences, FiniteSets, TLC

VARIABLES variant, fake_users_db, clock, op, req, resp

vars == <<variant, fake_users_db, clock, op, req, resp>>

\* The wall clock advances at most this far (seconds after process start).
MaxClock == 3

Variants == {"main", "sample"}

----------------------------------------------------------------------------
\* Strings

\* str.startswith
StartsWith(s, prefix) ==
    /\ Len(s) >= Len(prefix)
    /\ SubSeq(s, 1, Len(prefix)) = prefix

Digit(n) == SubSeq("0123456789", n + 1, n + 1)

\* str(n) of a non-negative integer, as an f-string formats it
RECURSIVE Digits(_)
Digits(n) == IF n < 10 THEN Digit(n) ELSE Digits(n \div 10) \o Digit(n % 10)

\* datetime.now().isoformat() + "Z", the clock read being t
isoformat_Z(t) == "2024-01-03T10:00:0" \o Digits(t) \o "Z"

\* f"{datetime.now().timestamp()}", the clock read being t
timestamp(t) == "170427600" \o Digits(t) \o ".0"

----------------------------------------------------------------------------
\* Dicts.  The store is an insertion-ordered dict: a sequence of
\* [k |-> key, v |-> value] entries with distinct keys.

DictKeys(d) == [i \in 1..Len(d) |-> d[i].k]

DictValues(d) == [i \in 1..Len(d) |-> d[i].v]

DictHas(d, key) == \E i \in 1..Len(d) : d[i].k = key

DictGet(d, key) == d[CHOOSE i \in 1..Len(d) : d[i].k = key].v

\* d[key] = value: replaces in place, or appends a new key
DictSet(d, key, value) ==
    IF DictHas(d, key)
    THEN [i \in 1..Len(d) |-> IF d[i].k = key THEN [k |-> key, v |-> value] ELSE d[i]]
    ELSE Append(d, [k |-> key, v |-> value])

\* every one of the keys can be subscripted (or read as an attribute)
HasKeys(r, keys) == keys \subseteq DOMAIN r

Project(r, keys) == [f \in keys |-> r[f]]

----------------------------------------------------------------------------
\* The seeded stores

database_fake_users_db ==
    << [k |-> "user1",
        v |-> [id |-> "user1", mail |-> "john@example.com", name |-> "John Doe",
               phone |-> "+1-234-567-8900", password |-> "hashed_password_123",
               created_at |-> "2024-01-01T10:00:00Z"]],
       [k |-> "user2",
        v |-> [id |-> "user2", mail |-> "jane@example.com", name |-> "Jane Smith",
               phone |-> "+1-987-654-3210", password |-> "hashed_password_456",
               created_at |-> "2024-01-02T10:00:00Z"]] >>

sample_fake_users_db ==
    << [k |-> "user1",
        v |-> [id |-> "user1", email |-> "john@example.com", name |-> "John Doe",
               mobile |-> "+1-234-567-8900", password |-> "hashed_password_123",
               created_at |-> "2024-01-01T10:00:00Z"]],
       [k |-> "user2",
        v |-> [id |-> "user2", email |-> "jane@example.com", name |-> "Jane Smith",
               mobile |-> "+1-987-654-3210", password |-> "hashed_password_456",
               created_at |-> "2024-01-02T10:00:00Z"]] >>

----------------------------------------------------------------------------
\* Pydantic models: the declared (all required) fields

UserResponseFields == {"id", "name", "mobile", "created_at"}

LoginResponseFields == {"success", "token", "refreshToken", "expiresIn", "user"}

main_LoginRequestFields == {"mailId", "password"}

main_CreateUserRequestFields == {"mailId", "password", "name", "mobile"}

RefreshTokenRequestFields == {"refresh_token"}

sample_LoginRequestFields == {"password"}

sample_CreateUserRequestFields == {"password", "name", "mobile"}

----------------------------------------------------------------------------
\* Responses

Ok(body) == [status |-> 200, body |-> body]

\* raise HTTPException(status_code, detail)
HTTPException(status_code, detail) ==
    [status |-> status_code, body |-> [detail |-> detail]]

\* an exception no handler catches
Unhandled(exc) == [status |-> 500, body |-> [detail |-> "Internal Server Error", exc |-> exc]]

\* the framework's answer to a request that fails shape validation
Unprocessable == [status |-> 422, body |-> [detail |-> "validation error"]]

\* Model(**kwargs): every declared field is required, the others are ignored
Construct(fields, kwargs) ==
    IF HasKeys(kwargs, fields) THEN Ok(Project(kwargs, fields))
    ELSE Unhandled("ValidationError")

----------------------------------------------------------------------------
\* Handlers.  Each yields [db |-> the store afterwards, resp |-> the response].

Result(db, response) == [db |-> db, resp |-> response]

\* ---- main.py ----

main_get_status(db, t) ==
    Result(db, Ok([status |-> "running", version |-> "1.0.0",
                   timestamp |-> isoformat_Z(t), users_count |-> Len(db)]))

\* main_get_user without the membership test: the subscript raises instead
main_get_user_unchecked(db, user_id) ==
    IF ~DictHas(db, user_id)
    THEN Result(db, Unhandled("KeyError"))
    ELSE LET user == DictGet(db, user_id) IN
         IF ~HasKeys(user, {"id", "gmail", "name", "phone", "created_at"})
         THEN Result(db, Unhandled("KeyError"))
         ELSE Result(db, Construct(UserResponseFields,
                  [id |-> user.id, gmail |-> user.gmail, name |-> user.name,
                   phone |-> user.phone, created_at |-> user.created_at]))

main_get_user(db, user_id) ==
    IF ~DictHas(db, user_id)
    THEN Result(db, HTTPException(404, "User not found"))
    ELSE LET user == DictGet(db, user_id) IN
         IF ~HasKeys(user, {"id", "gmail", "name", "phone", "created_at"})
         THEN Result(db, Unhandled("KeyError"))
         ELSE Result(db, Construct(UserResponseFields,
                  [id |-> user.id, gmail |-> user.gmail, name |-> user.name,
                   phone |-> user.phone, created_at |-> user.created_at]))

\* the list comprehension over fake_users_db.values(), from entry i on
RECURSIVE main_list_from(_, _)
main_list_from(db, i) ==
    IF i > Len(db) THEN Ok(<<>>)
    ELSE LET user == db[i].v IN
         IF ~HasKeys(user, {"id", "gmail", "name", "phone", "created_at"})
         THEN Unhandled("KeyError")
         ELSE LET one == Construct(UserResponseFields,
                            [id |-> user.id, gmail |-> user.gmail, name |-> user.name,
                             phone |-> user.phone, created_at |-> user.created_at])
                  rest == main_list_from(db, i + 1)
              IN  IF one.status # 200 THEN one
                  ELSE IF rest.status # 200 THEN rest
                  ELSE Ok(<<one.body>> \o rest.body)

main_list_users(db) == Result(db, main_list_from(db, 1))

\* main_create_user reading the fields CreateUserRequest declares: the record
\* is inserted, and then UserResponse is built without its mobile field
main_create_user_declared(db, request, t) ==
    LET new_user_id == "user" \o Digits(Len(db) + 1)
        new_user == [id |-> new_user_id, gmail |-> request.mailId,
                     password |-> request.password, name |-> request.name,
                     phone |-> request.mobile, created_at |-> isoformat_Z(t)]
    IN  Result(DictSet(db, new_user_id, new_user),
               Construct(UserResponseFields,
                   [id |-> new_user.id, gmail |-> new_user.gmail,
                    name |-> new_user.name, phone |-> new_user.phone,
                    created_at |-> new_user.created_at]))

main_create_user(db, request, t) ==
    LET new_user_id == "user" \o Digits(Len(db) + 1) IN
    IF ~HasKeys(request, {"gmail", "password", "name", "phone"})
    THEN Result(db, Unhandled("AttributeError"))
    ELSE LET new_user == [id |-> new_user_id, gmail |-> request.gmail,
                          password |-> request.password, name |-> request.name,
                          phone |-> request.phone, created_at |-> isoformat_Z(t)]
         IN  Result(DictSet(db, new_user_id, new_user),
                    Construct(UserResponseFields,
                        [id |-> new_user.id, gmail |-> new_user.gmail,
                         name |-> new_user.name, phone |-> new_user.phone,
                         created_at |-> new_user.created_at]))

\* the scan "for uid, u in fake_users_db.items()", from entry i on:
\* the index of the first match, 0 for none, or the exception raised
RECURSIVE main_login_scan(_, _, _)
main_login_scan(db, request, i) ==
    IF i > Len(db) THEN [exc |-> "", at |-> 0]
    ELSE IF ~HasKeys(db[i].v, {"gmail"}) THEN [exc |-> "KeyError", at |-> 0]
    ELSE IF ~HasKeys(request, {"gmail"}) THEN [exc |-> "AttributeError", at |-> 0]
    ELSE IF db[i].v.gmail = request.gmail THEN [exc |-> "", at |-> i]
    ELSE main_login_scan(db, request, i + 1)

main_login(db, request, t1, t2) ==
    LET found == main_login_scan(db, request, 1) IN
    IF found.exc # "" THEN Result(db, Unhandled(found.exc))
    ELSE IF found.at = 0 THEN Result(db, HTTPException(401, "Invalid credentials"))
    ELSE LET user == db[found.at].v
             user_id == db[found.at].k
         IN  IF user.password # request.password
             THEN Result(db, HTTPException(401, "Invalid credentials"))
             ELSE Result(db, Construct(LoginResponseFields,
                      [success |-> TRUE,
                       token |-> "token_jwt_" \o user_id \o "_" \o timestamp(t1),
                       refreshToken |-> "refresh_" \o user_id \o "_" \o timestamp(t2),
                       expiresIn |-> 3600,
                       user |-> [id |-> user.id, gmail |-> user.gmail,
                                 name |-> user.name]]))

main_refresh_token(db, request, t1, t2) ==
    IF ~StartsWith(request.refresh_token, "refresh_")
    THEN Result(db, HTTPException(401, "Invalid refresh token"))
    ELSE Result(db, Ok([token |-> "token_jwt_refreshed_" \o timestamp(t1),
                        refreshToken |-> "refresh_refreshed_" \o timestamp(t2),
                        expiresIn |-> 3600]))

main_get_profile(db, token, t) ==
    IF ~StartsWith(token, "token_")
    THEN Result(db, HTTPException(401, "Invalid token"))
    ELSE IF ~DictHas(db, "user1") THEN Result(db, Unhandled("KeyError"))
    ELSE LET user == DictGet(db, "user1") IN
         IF ~HasKeys(user, {"id", "gmail", "name", "phone", "created_at"})
         THEN Result(db, Unhandled("KeyError"))
         ELSE Result(db, Ok([id |-> user.id, gmail |-> user.gmail, name |-> user.name,
                             phone |-> user.phone, created_at |-> user.created_at,
                             lastLogin |-> isoformat_Z(t)]))

\* ---- sample_fastapi.py ----

sample_get_user(db, user_id) ==
    IF ~DictHas(db, user_id)
    THEN Result(db, HTTPException(404, "User not found"))
    ELSE LET user == DictGet(db, user_id) IN
         IF ~HasKeys(user, {"id", "email", "name", "mobile", "created_at"})
         THEN Result(db, Unhandled("KeyError"))
         ELSE Result(db, Construct(UserResponseFields,
                  [id |-> user.id, email |-> user.email, name |-> user.name,
                   mobile |-> user.mobile, created_at |-> user.created_at]))

RECURSIVE sample_list_from(_, _)
sample_list_from(db, i) ==
    IF i > Len(db) THEN Ok(<<>>)
    ELSE LET user == db[i].v IN
         IF ~HasKeys(user, {"id", "email", "name", "mobile", "created_at"})
         THEN Unhandled("KeyError")
         ELSE LET one == Construct(UserResponseFields,
                            [id |-> user.id, email |-> user.email, name |-> user.name,
                             mobile |-> user.mobile, created_at |-> user.created_at])
                  rest == sample_list_from(db, i + 1)
              IN  IF one.status # 200 THEN one
                  ELSE IF rest.status # 200 THEN rest
                  ELSE Ok(<<one.body>> \o rest.body)

sample_list_users(db) == Result(db, sample_list_from(db, 1))

sample_create_user(db, request, t) ==
    LET new_user_id == "user" \o Digits(Len(db) + 1) IN
    IF ~HasKeys(request, {"email", "password", "name", "mobile"})
    THEN Result(db, Unhandled("AttributeError"))
    ELSE LET new_user == [id |-> new_user_id, email |-> request.email,
                          password |-> request.password, name |-> request.name,
                          mobile |-> request.mobile, created_at |-> isoformat_Z(t)]
         IN  Result(DictSet(db, new_user_id, new_user),
                    Construct(UserResponseFields,
                        [id |-> new_user.id, email |-> new_user.email,
                         name |-> new_user.name, mobile |-> new_user.mobile,
                         created_at |-> new_user.created_at]))

RECURSIVE sample_login_scan(_, _, _)
sample_login_scan(db, request, i) ==
    IF i > Len(db) THEN [exc |-> "", at |-> 0]
    ELSE IF ~HasKeys(db[i].v, {"email"}) THEN [exc |-> "KeyError", at |-> 0]
    ELSE IF ~HasKeys(request, {"email"}) THEN [exc |-> "AttributeError", at |-> 0]
    ELSE IF db[i].v.email = request.email THEN [exc |-> "", at |-> i]
    ELSE sample_login_scan(db, request, i + 1)

\* this variant compares no password
sample_login(db, request, t1, t2) ==
    LET found == sample_login_scan(db, request, 1) IN
    IF found.exc # "" THEN Result(db, Unhandled(found.exc))
    ELSE IF found.at = 0 THEN Result(db, HTTPException(401, "Invalid credentials"))
    ELSE LET user == db[found.at].v
             user_id == db[found.at].k
         IN  Result(db, Construct(LoginResponseFields,
                 [success |-> TRUE,
                  token |-> "token_jwt_" \o user_id \o "_" \o timestamp(t1),
                  refreshToken |-> "refresh_" \o user_id \o "_" \o timestamp(t2),
                  expiresIn |-> 3600,
                  user |-> [id |-> user.id, email |-> user.email,
                            name |-> user.name]]))

\* sample_refresh_token testing the prefix without its underscore
sample_refresh_token_short(db, refresh_token, t1, t2) ==
    IF ~StartsWith(refresh_token, "refresh")
    THEN Result(db, HTTPException(401, "Invalid refresh token"))
    ELSE Result(db, Ok([token |-> "token_jwt_refreshed_" \o timestamp(t1),
                        refreshToken |-> "refresh_refreshed_" \o timestamp(t2),
                        expiresIn |-> 3600]))

sample_refresh_token(db, refresh_token, t1, t2) ==
    IF ~StartsWith(refresh_token, "refresh_")
    THEN Result(db, HTTPException(401, "Invalid refresh token"))
    ELSE Result(db, Ok([token |-> "token_jwt_refreshed_" \o timestamp(t1),
                        refreshToken |-> "refresh_refreshed_" \o timestamp(t2),
                        expiresIn |-> 3600]))

sample_get_profile(db, token, t) ==
    IF ~StartsWith(token, "token_")
    THEN Result(db, HTTPException(401, "Invalid token"))
    ELSE IF ~DictHas(db, "user1") THEN Result(db, Unhandled("KeyError"))
    ELSE LET user == DictGet(db, "user1") IN
         IF ~HasKeys(user, {"id", "email", "name", "mobile", "created_at"})
         THEN Result(db, Unhandled("KeyError"))
         ELSE Result(db, Ok([id |-> user.id, email |-> user.email, name |-> user.name,
                             mobile |-> user.mobile, created_at |-> user.created_at,
                             lastLogin |-> isoformat_Z(t)]))

sample_get_status(db, t) ==
    Result(db, Ok([status |-> "running", version |-> "1.0.0",
                   timestamp |-> isoformat_Z(t), users_count |-> Len(db)]))

----------------------------------------------------------------------------
\* The framework: shape validation before the handler runs

\* a body parsed into a model: the declared fields, the others dropped
Parse(fields, body) == Project(body, fields)

Valid(fields, body) == HasKeys(body, fields)

----------------------------------------------------------------------------
\* The requests a client sends

UserIds == {"user1", "user2", "user3", "user999"}

Contacts == {"john@example.com", "x@y.com"}

Passwords == {"hashed_password_123", "p"}

\* create bodies: each variant's declared shape, the shape the endpoint's
\* documentation names, and both together
CreateBodies ==
    UNION { { [mailId |-> c, password |-> "p", name |-> "X", mobile |-> "555"],
              [gmail |-> c, password |-> "p", name |-> "X", phone |-> "555"],
              [gmail |-> c, mailId |-> c, password |-> "p", name |-> "X",
               phone |-> "555", mobile |-> "555"],
              [password |-> "p", name |-> "X", mobile |-> "555"],
              [email |-> c, password |-> "p", name |-> "X", mobile |-> "555"] }
            : c \in Contacts }

LoginBodies ==
    UNION { { [mailId |-> c, password |-> p],
              [gmail |-> c, password |-> p],
              [gmail |-> c, mailId |-> c, password |-> p],
              [email |-> c, password |-> p],
              [password |-> p],
              [email |-> c] }
            : c \in Contacts, p \in Passwords }

TokenStrings ==
    { "", "token", "token_", "token_jwt_user1_1704276000.0", "token_jwt_user2_1704276001.0",
      "Token_abc", "refresh", "refresh_", "refresh_user1_1704276000.0",
      "refresh_never_issued", "refreshX", "xrefresh_" }

RefreshBodies == { [refresh_token |-> s] : s \in TokenStrings } \cup { [token |-> "refresh_"] }

ProfileQueries == { [token |-> s] : s \in TokenStrings } \cup { [refresh_token |-> "token_"] }

----------------------------------------------------------------------------
\* The state machine

Init ==
    /\ variant \in Variants
    /\ fake_users_db = IF variant = "main" THEN database_fake_users_db
                                           ELSE sample_fake_users_db
    /\ clock = 0
    /\ op = "start"
    /\ req = [none |-> ""]
    /\ resp = Ok([none |-> ""])

\* one request handled to completion; time passes meanwhile
Handle(name, request, result, t) ==
    /\ op' = name
    /\ req' = request
    /\ resp' = result.resp
    /\ fake_users_db' = result.db
    /\ clock' = t
    /\ UNCHANGED variant

Rejected(name, request) ==
    /\ op' = name
    /\ req' = request
    /\ resp' = Unprocessable
    /\ UNCHANGED <<variant, fake_users_db, clock>>

GetStatus ==
    \E t \in clock..MaxClock :
        Handle("get_status", [none |-> ""],
               IF variant = "main" THEN main_get_status(fake_users_db, t)
                                   ELSE sample_get_status(fake_users_db, t), t)

GetUser ==
    \E user_id \in UserIds :
        Handle("get_user", [user_id |-> user_id],
               IF variant = "main" THEN main_get_user(fake_users_db, user_id)
                                   ELSE sample_get_user(fake_users_db, user_id), clock)

ListUsers ==
    Handle("list_users", [none |-> ""],
           IF variant = "main" THEN main_list_users(fake_users_db)
                               ELSE sample_list_users(fake_users_db), clock)

CreateUser ==
    \E body \in CreateBodies, t \in clock..MaxClock :
        LET fields == IF variant = "main" THEN main_CreateUserRequestFields
                                          ELSE sample_CreateUserRequestFields
        IN  IF ~Valid(fields, body) THEN Rejected("create_user", body)
            ELSE Handle("create_user", body,
                   IF variant = "main"
                   THEN main_create_user(fake_users_db, Parse(fields, body), t)
                   ELSE sample_create_user(fake_users_db, Parse(fields, body), t), t)

Login ==
    \E body \in LoginBodies, t1 \in clock..MaxClock :
      \E t2 \in t1..MaxClock :
        LET fields == IF variant = "main" THEN main_LoginRequestFields
                                          ELSE sample_LoginRequestFields
        IN  IF ~Valid(fields, body) THEN Rejected("login", body)
            ELSE Handle("login", body,
                   IF variant = "main"
                   THEN main_login(fake_users_db, Parse(fields, body), t1, t2)
                   ELSE sample_login(fake_users_db, Parse(fields, body), t1, t2), t2)

\* main.py takes the token in the body, sample_fastapi.py as a query parameter
RefreshToken ==
    \E body \in RefreshBodies, t1 \in clock..MaxClock :
      \E t2 \in t1..MaxClock :
        IF ~Valid(RefreshTokenRequestFields, body) THEN Rejected("refresh_token", body)
        ELSE Handle("refresh_token", body,
               IF variant = "main"
               THEN main_refresh_token(fake_users_db,
                                       Parse(RefreshTokenRequestFields, body), t1, t2)
               ELSE sample_refresh_token(fake_users_db, body.refresh_token, t1, t2), t2)

GetProfile ==
    \E query \in ProfileQueries, t \in clock..MaxClock :
        IF ~Valid({"token"}, query) THEN Rejected("get_profile", query)
        ELSE Handle("get_profile", query,
               IF variant = "main" THEN main_get_profile(fake_users_db, query.token, t)
                                   ELSE sample_get_profile(fake_users_db, query.token, t), t)

Next ==
    \/ GetStatus
    \/ GetUser
    \/ ListUsers
    \/ CreateUser
    \/ Login
    \/ RefreshToken
    \/ GetProfile

Spec == Init /\ [][Next]_vars

----------------------------------------------------------------------------
\* Vocabulary of the properties

\* the handlers ran (the request passed shape validation)
Handled(name) == op = name /\ resp.status # 422

ContactNames == {"mail", "gmail", "email", "mailId"}

PhoneNames == {"phone", "mobile"}

\* r carries value under one of the names
Carries(r, names, value) == \E f \in names \cap DOMAIN r : r[f] = value

\* the value r holds under the first of the names it has
Held(r, names) == r[CHOOSE f \in names \cap DOMAIN r : TRUE]

\* body is the wire form of the stored record: id, contact, name, phone, created_at
MappedFrom(body, record) ==
    /\ HasKeys(body, {"id", "name", "created_at"})
    /\ body.id = record.id
    /\ body.name = record.name
    /\ body.created_at = record.created_at
    /\ Carries(body, ContactNames, Held(record, ContactNames))
    /\ Carries(body, PhoneNames, Held(record, PhoneNames))

get_user(db, user_id) ==
    IF variant = "main" THEN main_get_user(db, user_id) ELSE sample_get_user(db, user_id)

----------------------------------------------------------------------------
\* C1: Get user on an id present in the store answers 200 with the mapped
\* record: id, contact, name, phone and created_at equal to the stored values,
\* in both variants.
C1_GetUserReturnsStored ==
    (op = "get_user" /\ DictHas(fake_users_db, req.user_id)) =>
        /\ resp.status = 200
        /\ MappedFrom(resp.body, DictGet(fake_users_db, req.user_id))

\* C2: the n-th create on the seeded store is given the id "user" + (2+n), a
\* fresh key of the store, and the response carries that id and a created_at.
C2_CreateAssignsNextId ==
    Handled("create_user") =>
        /\ resp.status \in {200, 201}
        /\ HasKeys(resp.body, {"id", "created_at"})
        /\ Len(fake_users_db) >= 3
        /\ resp.body.id = "user" \o Digits(Len(fake_users_db))
        /\ fake_users_db[Len(fake_users_db)].k = resp.body.id
        /\ \A i \in 1..(Len(fake_users_db) - 1) : fake_users_db[i].k # resp.body.id

\* C3: login answers 200 with success, two distinct non-empty tokens,
\* expiresIn 3600 and the user object exactly when a stored record has the
\* submitted contact and password; otherwise 401 "Invalid credentials".
C3_LoginIffCredentialsMatch ==
    Handled("login") =>
        LET matches == { i \in 1..Len(fake_users_db) :
                           /\ Carries(req, ContactNames,
                                      Held(fake_users_db[i].v, ContactNames))
                           /\ fake_users_db[i].v.password = req.password }
        IN  IF matches # {}
            THEN /\ resp.status = 200
                 /\ HasKeys(resp.body, LoginResponseFields)
                 /\ resp.body.success = TRUE
                 /\ resp.body.token # ""
                 /\ resp.body.refreshToken # ""
                 /\ resp.body.token # resp.body.refreshToken
                 /\ resp.body.expiresIn = 3600
                 /\ HasKeys(resp.body.user, {"id", "name"})
            ELSE /\ resp.status = 401
                 /\ resp.body.detail = "Invalid credentials"

\* C4: a created user fetched by the id of the create response has the
\* contact, name, phone and created_at of the creation.
C4_CreateThenGetRoundTrip ==
    Handled("create_user") =>
        /\ resp.status \in {200, 201}
        /\ HasKeys(resp.body, {"id", "created_at"})
        /\ LET got == get_user(fake_users_db, resp.body.id).resp IN
           /\ got.status = 200
           /\ got.body.created_at = resp.body.created_at
           /\ got.body.name = req.name
           /\ Carries(got.body, ContactNames, Held(req, ContactNames))
           /\ Carries(got.body, PhoneNames, Held(req, PhoneNames))

\* C5: List users never fails and returns the records in insertion order;
\* a successful create makes the listing exactly one longer.
C5_ListInInsertionOrder ==
    [][ /\ op' = "list_users" =>
              /\ resp'.status = 200
              /\ Len(resp'.body) = Len(fake_users_db')
              /\ \A i \in 1..Len(fake_users_db') :
                     resp'.body[i].id = fake_users_db'[i].k
        /\ (op' = "create_user" /\ resp'.status \in {200, 201}) =>
              Len(fake_users_db') = Len(fake_users_db) + 1 ]_vars

\* C6: Get user on an id that is no key of the store answers 404 in both
\* variants and leaves the store unchanged.
C6_GetUserMissingIs404 ==
    [][ (op' = "get_user" /\ ~DictHas(fake_users_db, req'.user_id)) =>
           /\ resp'.status = 404
           /\ resp'.body.detail = "User not found"
           /\ fake_users_db' = fake_users_db ]_vars

C6_Witness ==
    /\ op = "get_user"
    /\ req.user_id = "user999"
    /\ ~DictHas(fake_users_db, "user999")
    /\ resp.status = 404

\* C7: a request that passes shape validation ends in success, 404 or 401,
\* whatever the handler and the variant.
C7_OnlyNotFoundOrUnauthorized ==
    (op # "start" /\ resp.status # 422) => resp.status \in {200, 201, 404, 401}

\* C8: Refresh token answers 401 to every string that does not start with
\* "refresh_", and to every string that does, issued or not, 200 with a new
\* token pair and expiresIn 3600; the store is left as it was.
C8_RefreshByPrefixOnly ==
    [][ (op' = "refresh_token" /\ resp'.status # 422) =>
           /\ fake_users_db' = fake_users_db
           /\ IF StartsWith(req'.refresh_token, "refresh_")
              THEN /\ resp'.status = 200
                   /\ DOMAIN resp'.body = {"token", "refreshToken", "expiresIn"}
                   /\ resp'.body.expiresIn = 3600
                   /\ StartsWith(resp'.body.token, "token_")
                   /\ StartsWith(resp'.body.refreshToken, "refresh_")
                   /\ resp'.body.refreshToken # req'.refresh_token
              ELSE /\ resp'.status = 401
                   /\ resp'.body.detail = "Invalid refresh token" ]_vars

C8_Witness ==
    /\ op = "refresh_token"
    /\ resp.status = 200
    /\ req.refresh_token = "refresh_never_issued"
    /\ resp.body.expiresIn = 3600

\* C9: Get profile answers 401 to a token that does not start with "token_",
\* and to every token that does, 200 with the fields of the stored user1
\* plus lastLogin.
C9_ProfileIsUser1 ==
    Handled("get_profile") =>
        IF StartsWith(req.token, "token_")
        THEN /\ resp.status = 200
             /\ MappedFrom(resp.body, DictGet(fake_users_db, "user1"))
             /\ HasKeys(resp.body, {"lastLogin"})
        ELSE resp.status = 401

\* C10: every key of the store is the id of its record and the ids are
\* distinct; a record once in the store, the seeded ones included, stays
\* there unchanged; only a successful Create user changes the store.
C10_StoreOnlyGrowsByCreate ==
    [][ /\ \A i \in 1..Len(fake_users_db) : fake_users_db[i].k = fake_users_db[i].v.id
        /\ \A i, j \in 1..Len(fake_users_db) :
               fake_users_db[i].k = fake_users_db[j].k => i = j
        /\ Len(fake_users_db) >= 2
        /\ fake_users_db[1].k = "user1"
        /\ fake_users_db[2].k = "user2"
        /\ Len(fake_users_db') >= Len(fake_users_db)
        /\ \A i \in 1..Len(fake_users_db) : fake_users_db'[i] = fake_users_db[i]
        /\ fake_users_db' # fake_users_db =>
               (op' = "create_user" /\ resp'.status \in {200, 201}) ]_vars

C10_Witness ==
    /\ op = "create_user"
    /\ resp.status = 500
    /\ fake_users_db \in {database_fake_users_db, sample_fake_users_db}

====
